---- MODULE Spec2Model ----
(***************************************************************************)
(* Model of the tourism orchestrator (src/agents.py) and of its web        *)
(* boundary (src/app.py).                                                  *)
(*                                                                         *)
(* Representation of Python values:                                        *)
(*   str   a sequence of pieces; a piece is one character, or a literal    *)
(*         of the source kept whole ("Location: ").  Text that the code    *)
(*         inspects (queries, place names, category tags) is written one   *)
(*         character per piece.                                            *)
(*   dict  a function from keys (strings) to values; a key is present iff  *)
(*         it is in the DOMAIN.                                            *)
(*   None / number   tagged records None and Num(n).                       *)
(*   JSON bodies     Json_list(seq), Json_dict(dict), Json_other.          *)
(***************************************************************************)
EXTENDS Integers, Sequences, FiniteSets, TLC

(***************************************************************************)
(* Bound of the model: the longest element list the points-of-interest     *)
(* provider answers with.                                                  *)
(***************************************************************************)
MaxElements == 6

None == [type |-> "NoneType"]
Num(n) == [type |-> "int", val |-> n]
EmptyDict == [k \in {} |-> None]

Json_list(s) == [type |-> "list", elems |-> s]
Json_dict(d) == [type |-> "dict", items |-> d]
Json_other == [type |-> "other"]
Str(s) == [type |-> "str", text |-> s]

(***************************************************************************)
(* Built-in string operations used by the source.                          *)
(***************************************************************************)
UpperCase == <<"A","B","C","D","E","F","G","H","I","J","K","L","M",
               "N","O","P","Q","R","S","T","U","V","W","X","Y","Z">>
LowerCase == <<"a","b","c","d","e","f","g","h","i","j","k","l","m",
               "n","o","p","q","r","s","t","u","v","w","x","y","z">>
Digits == <<"0","1","2","3","4","5","6","7","8","9">>
Whitespace == {" ", "\n", "\t"}

IndexIn(c, table) == CHOOSE i \in 1..Len(table) : table[i] = c
IsUpper(c) == \E i \in 1..Len(UpperCase) : UpperCase[i] = c
IsLower(c) == \E i \in 1..Len(LowerCase) : LowerCase[i] = c
IsDigit(c) == \E i \in 1..Len(Digits) : Digits[i] = c
lower_char(c) == IF IsUpper(c) THEN LowerCase[IndexIn(c, UpperCase)] ELSE c
upper_char(c) == IF IsLower(c) THEN UpperCase[IndexIn(c, LowerCase)] ELSE c

\* str.lower()
lower(s) == [i \in 1..Len(s) |-> lower_char(s[i])]

\* str.strip()
RECURSIVE lstrip(_)
lstrip(s) == IF s # <<>> /\ Head(s) \in Whitespace THEN lstrip(Tail(s)) ELSE s
RECURSIVE rstrip(_)
rstrip(s) ==
    IF s # <<>> /\ s[Len(s)] \in Whitespace THEN rstrip(SubSeq(s, 1, Len(s) - 1)) ELSE s
strip(s) == rstrip(lstrip(s))

\* sub in s
contains(sub, s) ==
    \E i \in 1..(Len(s) - Len(sub) + 1) : SubSeq(s, i, i + Len(sub) - 1) = sub

\* s.replace(old, new) for one-character old and new
replace(s, old, new) == [i \in 1..Len(s) |-> IF s[i] = old THEN new ELSE s[i]]

\* str.title(): a letter that follows a non-letter is upper-cased, any other
\* letter lower-cased
title(s) ==
    [i \in 1..Len(s) |->
        IF i = 1 \/ ~(IsUpper(s[i-1]) \/ IsLower(s[i-1]))
        THEN upper_char(s[i]) ELSE lower_char(s[i])]

\* sep.join(parts)
RECURSIVE join(_, _)
join(sep, parts) ==
    IF parts = <<>> THEN <<>>
    ELSE IF Len(parts) = 1 THEN parts[1]
    ELSE parts[1] \o sep \o join(sep, Tail(parts))

\* str(n) / the {n} of an f-string, for an int
RECURSIVE str_nat(_)
str_nat(n) ==
    IF n < 10 THEN <<Digits[n + 1]>> ELSE str_nat(n \div 10) \o <<Digits[(n % 10) + 1]>>
str_int(n) == IF n < 0 THEN <<"-">> \o str_nat(-n) ELSE str_nat(n)
\* the {v} of an f-string, for a value that is None or a number
format(v) == IF v = None THEN <<"N","o","n","e">> ELSE str_int(v.val)

\* float(s): the model's upstream coordinates are whole degrees, so the
\* literals accepted are [-]digits; anything else raises ValueError
is_nat_literal(s) == s # <<>> /\ \A i \in 1..Len(s) : IsDigit(s[i])
is_float_literal(s) ==
    IF s # <<>> /\ Head(s) = "-" THEN is_nat_literal(Tail(s)) ELSE is_nat_literal(s)
RECURSIVE parse_nat(_)
parse_nat(s) ==
    IF s = <<>> THEN 0
    ELSE parse_nat(SubSeq(s, 1, Len(s) - 1)) * 10 + (IndexIn(s[Len(s)], Digits) - 1)
float(s) == IF Head(s) = "-" THEN 0 - parse_nat(Tail(s)) ELSE parse_nat(s)

\* dict.get(key, default)
get(d, key, default) == IF key \in DOMAIN d THEN d[key] ELSE default

(***************************************************************************)
(* GeocodingService.get_coordinates                                        *)
(* resp is what requests.get + raise_for_status + json() produce:          *)
(* [status |-> "error", diag] when one of them raises, otherwise           *)
(* [status |-> "ok", json].                                                *)
(***************************************************************************)
get_coordinates(resp) ==
    IF resp.status # "ok" THEN None
    ELSE IF resp.json.type = "list"
    THEN LET data == resp.json.elems IN
         IF Len(data) > 0
         THEN IF /\ "lat" \in DOMAIN data[1] /\ is_float_literal(data[1]["lat"])
                 /\ "lon" \in DOMAIN data[1] /\ is_float_literal(data[1]["lon"])
                 /\ "display_name" \in DOMAIN data[1]
              THEN [lat |-> float(data[1]["lat"]),
                    lon |-> float(data[1]["lon"]),
                    display_name |-> data[1]["display_name"]]
              ELSE None      \* KeyError / ValueError, caught
         ELSE None
    ELSE None                \* a dict or a scalar: data[0] raises (caught), or data is falsy

(***************************************************************************)
(* WeatherAgent                                                            *)
(***************************************************************************)
_interpret_weather_code(code) ==
    CASE code = 0 -> <<"Clear sky">>
      [] code = 1 -> <<"Mainly clear">>
      [] code = 2 -> <<"Partly cloudy">>
      [] code = 3 -> <<"Overcast">>
      [] code = 45 -> <<"Foggy">>
      [] code = 48 -> <<"Depositing rime fog">>
      [] code = 51 -> <<"Light drizzle">>
      [] code = 53 -> <<"Moderate drizzle">>
      [] code = 55 -> <<"Dense drizzle">>
      [] code = 61 -> <<"Slight rain">>
      [] code = 63 -> <<"Moderate rain">>
      [] code = 65 -> <<"Heavy rain">>
      [] code = 71 -> <<"Slight snow">>
      [] code = 73 -> <<"Moderate snow">>
      [] code = 75 -> <<"Heavy snow">>
      [] code = 95 -> <<"Thunderstorm">>
      [] OTHER -> <<"Unknown">>

weather_error(diag) ==
    [error |-> <<"Unable to fetch weather data">>, details |-> diag]

get_weather(resp) ==
    IF resp.status # "ok" THEN weather_error(resp.diag)
    ELSE IF resp.json.type # "dict"
    THEN weather_error(<<"AttributeError">>)     \* data.get on a non-dict
    ELSE LET data == resp.json.items
             current == get(data, "current", EmptyDict)
             weather_code == get(current, "weather_code", 0)
             weather_desc == _interpret_weather_code(weather_code)
         IN [temperature |-> IF "temperature_2m" \in DOMAIN current
                             THEN Num(current["temperature_2m"]) ELSE None,
             temperature_unit |-> <<"°C">>,
             precipitation_probability |-> get(current, "precipitation_probability", 0),
             weather_description |-> weather_desc,
             timezone |-> get(data, "timezone", <<"UTC">>)]

(***************************************************************************)
(* PlacesAgent.get_tourist_places                                          *)
(***************************************************************************)
\* a failed lookup reported as an empty list
places_error_empty(diag) == <<>>

places_error(diag) ==
    <<[error |-> <<"Unable to fetch tourist places">>, details |-> diag]>>

\* no truncation of the upstream list
first5_all(elements) == elements

\* elements[:5]
first5(elements) == SubSeq(elements, 1, IF Len(elements) < 5 THEN Len(elements) ELSE 5)

\* the body of the for loop, for an element that is a dict
place_info_of(element) ==
    LET tags == get(element.items, "tags", EmptyDict)
        name == get(tags, "name", <<"Unnamed attraction">>)
        tourism_type == get(tags, "tourism", <<"a","t","t","r","a","c","t","i","o","n">>)
        place_info == [name |-> name,
                       type |-> title(replace(tourism_type, "_", " ")),
                       lat |-> get(element.items, "lat", None),
                       lon |-> get(element.items, "lon", None)]
        with_website == IF "website" \in DOMAIN tags
                        THEN place_info @@ ("website" :> tags["website"])
                        ELSE place_info
    IN IF "description" \in DOMAIN tags
       THEN with_website @@ ("description" :> tags["description"])
       ELSE with_website

get_tourist_places(resp) ==
    IF resp.status # "ok" THEN places_error(resp.diag)
    ELSE IF resp.json.type # "dict"
    THEN places_error(<<"AttributeError">>)      \* data.get on a non-dict
    ELSE LET elements == get(resp.json.items, "elements", <<>>)
             kept == first5(elements)
         IN IF \E i \in 1..Len(kept) : kept[i].type # "dict"
            THEN places_error(<<"AttributeError">>)  \* element.get on a non-dict
            ELSE [i \in 1..Len(kept) |-> place_info_of(kept[i])]

(***************************************************************************)
(* TourismOrchestrator: the pure parts                                     *)
(***************************************************************************)
weather_terms ==
    { <<"w","e","a","t","h","e","r">>, <<"t","e","m","p","e","r","a","t","u","r","e">>,
      <<"r","a","i","n">>, <<"f","o","r","e","c","a","s","t">>,
      <<"c","l","i","m","a","t","e">>, <<"h","o","t">>, <<"c","o","l","d">> }
places_terms ==
    { <<"v","i","s","i","t">>, <<"p","l","a","c","e","s">>,
      <<"a","t","t","r","a","c","t","i","o","n","s">>, <<"s","e","e">>, <<"d","o">>,
      <<"t","r","i","p">>, <<"t","o","u","r","i","s","m">>,
      <<"s","i","g","h","t","s","e","e","i","n","g">> }

needs_weather(user_query) == \E word \in weather_terms : contains(word, lower(user_query))
needs_places(user_query) == \E word \in places_terms : contains(word, lower(user_query))

unknown == <<"u","n","k","n","o","w","n">>

\* resp is what client.chat.completions.create produces: [status |-> "error"]
\* when it raises, otherwise the content of the first choice (a str or None)
_extract_place_name(resp) ==
    IF resp.status # "ok" THEN unknown
    ELSE IF resp.content = None THEN unknown     \* None.strip(): AttributeError, caught
    ELSE strip(resp.content.text)

analyze_query(user_query, resp) ==
    [needs_weather |-> needs_weather(user_query),
     needs_places |-> needs_places(user_query),
     place_name |-> _extract_place_name(resp)]

\* the test without lower(): "Unknown" is taken for a place
no_place_case_sensitive(place_name) == place_name = unknown \/ place_name = <<>>

\* the test of process_request on the extracted place name
no_place(place_name) == lower(place_name) = unknown \/ place_name = <<>>

no_place_message ==
    <<"I couldn't identify a place name in your query. Please specify which location you'd like information about.">>

\* the message without the f prefix: the place name is not interpolated
not_found_message_literal(place_name) ==
    <<"I don't know if the place '{place_name}' exists, or I couldn't find its location. Please check the spelling and try again.">>

not_found_message(place_name) ==
    <<"I don't know if the place '">> \o place_name
        \o <<"' exists, or I couldn't find its location. Please check the spelling and try again.">>

failed(message) == [success |-> FALSE, message |-> message]

resolved(place_name, coords) ==
    [success |-> TRUE,
     place |-> [name |-> place_name,
                full_name |-> coords.display_name,
                coordinates |-> [lat |-> coords.lat, lon |-> coords.lon]]]

\* the places lookup guarded by needs_weather instead of needs_places
next_step_same_flag(after, analysis) ==
    CASE after = "geocode" -> IF analysis.needs_weather THEN "weather" ELSE "compose"
      [] after = "weather" -> IF analysis.needs_weather THEN "places" ELSE "compose"
      [] OTHER -> "compose"

\* the two lookups of step 3 in the other order
next_step_swapped(after, analysis) ==
    CASE after = "geocode" ->
            IF analysis.needs_places THEN "places"
            ELSE IF analysis.needs_weather THEN "weather" ELSE "compose"
      [] after = "places" -> IF analysis.needs_weather THEN "weather" ELSE "compose"
      [] OTHER -> "compose"

\* the order of steps 3 and 4 of process_request: the step that follows `after`
next_step(after, analysis) ==
    CASE after = "geocode" ->
            IF analysis.needs_weather THEN "weather"
            ELSE IF analysis.needs_places THEN "places" ELSE "compose"
      [] after = "weather" -> IF analysis.needs_places THEN "places" ELSE "compose"
      [] OTHER -> "compose"

\* the "name (type)" entries of the places that carry no error
RECURSIVE places_list(_)
places_list(places) ==
    IF places = <<>> THEN <<>>
    ELSE IF "error" \notin DOMAIN Head(places)
         THEN << Head(places).name \o <<" (">> \o Head(places).type \o <<")">> >>
                  \o places_list(Tail(places))
         ELSE places_list(Tail(places))

weather_line(weather) ==
    <<"Weather: ">> \o format(weather.temperature) \o weather.temperature_unit
        \o <<", ">> \o weather.weather_description
        \o <<", ">> \o str_int(weather.precipitation_probability)
        \o <<"% chance of rain">>

\* the weather line built with dict.get defaults and no test for the error key
context_parts_no_error_test(result) ==
    << <<"Location: ">> \o result.place.full_name >>
    \o (IF "weather" \in DOMAIN result
        THEN << <<"Weather: ">>
                  \o get(result.weather, "weather_description", <<"unavailable">>) >>
        ELSE <<>>)
    \o (IF "places" \in DOMAIN result /\ Len(result.places) > 0
           /\ Len(places_list(result.places)) > 0
        THEN << <<"Tourist attractions: ">> \o join(<<", ">>, places_list(result.places)) >>
        ELSE <<>>)

context_parts(result) ==
    << <<"Location: ">> \o result.place.full_name >>
    \o (IF "weather" \in DOMAIN result /\ "error" \notin DOMAIN result.weather
        THEN << weather_line(result.weather) >> ELSE <<>>)
    \o (IF "places" \in DOMAIN result /\ Len(result.places) > 0
           /\ Len(places_list(result.places)) > 0
        THEN << <<"Tourist attractions: ">> \o join(<<", ">>, places_list(result.places)) >>
        ELSE <<>>)

\* the parts joined by a blank instead of a line break
build_context_blank(result) == join(<<" ">>, context_parts(result))

build_context(result) == join(<<"\n">>, context_parts(result))

\* the value _generate_response returns, given the context it built
_generate_response(ctx, resp) ==
    IF resp.status = "ok" THEN resp.content
    ELSE Str(<<"Here's what I found: ">> \o ctx)

(***************************************************************************)
(* The collaborators.  Each set holds the responses the model lets a       *)
(* service give: a failure of the call (timeout, HTTP error, body that is  *)
(* not JSON) and bodies of the shapes the code distinguishes.              *)
(***************************************************************************)
Failure(diag) == [status |-> "error", diag |-> diag]
Body(json) == [status |-> "ok", json |-> json]
Completion(content) == [status |-> "ok", content |-> content]

\* what the web layer receives as data.get("query", "")
Queries ==
    { <<>>,
      <<"h","i">>,
      <<"h","o","t","?">>,
      <<"T","o"," ","D","o">>,
      <<"R","a","i","n"," ","t","r","i","p">> }

ExtractResponses ==
    { Failure(<<"APIError">>),
      Completion(None),
      Completion(Str(<<>>)),
      Completion(Str(<<" ">>)),
      Completion(Str(unknown)),
      Completion(Str(<<"U","n","k","n","o","w","n">>)),
      Completion(Str(<<" ","U","N","K","N","O","W","N","\n">>)),
      Completion(Str(<<"P","a","r","i","s">>)),
      Completion(Str(<<" ","G","o","a"," ">>)) }

GeocodeResponses ==
    { Failure(<<"Timeout">>),
      Body(Json_list(<<>>)),
      Body(Json_dict(EmptyDict)),
      Body(Json_list(<< [lat |-> <<"4","8">>, lon |-> <<"2">>,
                         display_name |-> <<"Paris, France">>] >>)),
      Body(Json_list(<< [lat |-> <<"1","5">>, lon |-> <<"-","7","4">>,
                         display_name |-> <<>>] >>)),
      Body(Json_list(<< [lat |-> <<"n","/","a">>, lon |-> <<"2">>,
                         display_name |-> <<"Paris, France">>] >>)),
      Body(Json_list(<< [lat |-> <<"4","8">>, lon |-> <<"2">>] >>)) }

WeatherResponses ==
    { Failure(<<"Timeout">>),
      Body(Json_list(<<>>)),
      Body(Json_dict(EmptyDict)),
      Body(Json_dict([current |-> [weather_code |-> 7]])),
      Body(Json_dict([current |-> [temperature_2m |-> -3,
                                   precipitation_probability |-> 40,
                                   weather_code |-> 95],
                      timezone |-> <<"Europe/Paris">>])) }

\* the elements the points-of-interest provider answers with
ElementKinds ==
    { Json_dict([tags |-> [name |-> <<"Luna Park">>,
                           tourism |-> <<"t","h","e","m","e","_","p","a","r","k">>,
                           website |-> <<"https://luna.example">>],
                 lat |-> Num(48), lon |-> Num(2)]),
      Json_dict(EmptyDict),
      Json_other }

ElementLists == UNION { [1..n -> ElementKinds] : n \in 0..MaxElements }

PlacesResponses ==
    { Failure(<<"Timeout">>), Body(Json_list(<<>>)), Body(Json_dict(EmptyDict)) }
    \cup { Body(Json_dict([elements |-> elements])) : elements \in ElementLists }

ComposeResponses ==
    { Failure(<<"APIError">>), Completion(Str(<<"Have a lovely stay!">>)) }

(***************************************************************************)
(* State                                                                   *)
(*   pc          where the request in progress stands                      *)
(*   user_query  the query of the request in progress                      *)
(*   analysis    the dict analyze_query returns                            *)
(*   coords      what get_coordinates returned                             *)
(*   result      the dict process_request builds and returns               *)
(*   context     the context string _generate_response built               *)
(*   events      the outbound calls of this request and their returns, in  *)
(*               the order they happen                                     *)
(*   received    the response each service gave in this request            *)
(*   reply       the HTTP reply of the web layer                           *)
(***************************************************************************)
VARIABLES pc, user_query, analysis, coords, result, context, events, received, reply

vars == <<pc, user_query, analysis, coords, result, context, events, received, reply>>

NoReply == [status |-> 0, body |-> EmptyDict]

call(svc) == [ev |-> "call", svc |-> svc]
return(svc) == [ev |-> "return", svc |-> svc]

\* the calls among the events, and the calls to one service
IsCall(e) == e.ev = "call"
calls == SelectSeq(events, IsCall)
called(svc) == \E i \in 1..Len(events) : events[i] = call(svc)
times_called(svc) == Cardinality({i \in 1..Len(events) : events[i] = call(svc)})

Init ==
    /\ pc = "idle"
    /\ user_query = <<>>
    /\ analysis = EmptyDict
    /\ coords = None
    /\ result = EmptyDict
    /\ context = <<>>
    /\ events = <<>>
    /\ received = EmptyDict
    /\ reply = NoReply

\* app.process_query up to the call of process_request
process_query(query) ==
    /\ pc = "idle"
    /\ user_query' = query
    /\ analysis' = EmptyDict
    /\ coords' = None
    /\ result' = EmptyDict
    /\ context' = <<>>
    /\ events' = <<>>
    /\ received' = EmptyDict
    /\ IF query = <<>>
       THEN /\ reply' = [status |-> 400,
                         body |-> failed(<<"Please provide a query">>)]
            /\ pc' = "idle"
       ELSE /\ reply' = NoReply
            /\ pc' = "analyze"

\* analyze_query -> _extract_place_name: the completion call goes out
extract_call ==
    /\ pc = "analyze"
    /\ events' = Append(events, call("extract"))
    /\ pc' = "extract_wait"
    /\ UNCHANGED <<user_query, analysis, coords, result, context, received, reply>>

\* the completion call returns; process_request tests the place name
extract_return(resp) ==
    /\ pc = "extract_wait"
    /\ events' = Append(events, return("extract"))
    /\ received' = received @@ ("extract" :> resp)
    /\ analysis' = analyze_query(user_query, resp)
    /\ IF no_place(analysis'.place_name)
       THEN /\ result' = failed(no_place_message)
            /\ pc' = "return"
       ELSE /\ result' = result
            /\ pc' = "geocode"
    /\ UNCHANGED <<user_query, coords, context, reply>>

geocode_call ==
    /\ pc = "geocode"
    /\ events' = Append(events, call("geocode"))
    /\ pc' = "geocode_wait"
    /\ UNCHANGED <<user_query, analysis, coords, result, context, received, reply>>

geocode_return(resp) ==
    /\ pc = "geocode_wait"
    /\ events' = Append(events, return("geocode"))
    /\ received' = received @@ ("geocode" :> resp)
    /\ coords' = get_coordinates(resp)
    /\ IF coords' = None
       THEN /\ result' = failed(not_found_message(analysis.place_name))
            /\ pc' = "return"
       ELSE /\ result' = resolved(analysis.place_name, coords')
            /\ pc' = next_step("geocode", analysis)
    /\ UNCHANGED <<user_query, analysis, context, reply>>

weather_call ==
    /\ pc = "weather"
    /\ events' = Append(events, call("weather"))
    /\ pc' = "weather_wait"
    /\ UNCHANGED <<user_query, analysis, coords, result, context, received, reply>>

weather_return(resp) ==
    /\ pc = "weather_wait"
    /\ events' = Append(events, return("weather"))
    /\ received' = received @@ ("weather" :> resp)
    /\ result' = result @@ ("weather" :> get_weather(resp))
    /\ pc' = next_step("weather", analysis)
    /\ UNCHANGED <<user_query, analysis, coords, context, reply>>

places_call ==
    /\ pc = "places"
    /\ events' = Append(events, call("places"))
    /\ pc' = "places_wait"
    /\ UNCHANGED <<user_query, analysis, coords, result, context, received, reply>>

places_return(resp) ==
    /\ pc = "places_wait"
    /\ events' = Append(events, return("places"))
    /\ received' = received @@ ("places" :> resp)
    /\ result' = result @@ ("places" :> get_tourist_places(resp))
    /\ pc' = next_step("places", analysis)
    /\ UNCHANGED <<user_query, analysis, coords, context, reply>>

\* _generate_response builds the context, the completion call goes out
compose_call ==
    /\ pc = "compose"
    /\ context' = build_context(result)
    /\ events' = Append(events, call("compose"))
    /\ pc' = "compose_wait"
    /\ UNCHANGED <<user_query, analysis, coords, result, received, reply>>

\* a failed completion call tried a second time before falling back
compose_return_retry(resp) ==
    /\ pc = "compose_wait"
    /\ events' = Append(events, return("compose"))
    /\ received' = received @@ ("compose" :> resp)
    /\ IF resp.status # "ok" /\ times_called("compose") < 2
       THEN /\ result' = result
            /\ pc' = "compose"
       ELSE /\ result' = result @@ ("response" :> _generate_response(context, resp))
            /\ pc' = "return"
    /\ UNCHANGED <<user_query, analysis, coords, context, reply>>

compose_return(resp) ==
    /\ pc = "compose_wait"
    /\ events' = Append(events, return("compose"))
    /\ received' = received @@ ("compose" :> resp)
    /\ result' = result @@ ("response" :> _generate_response(context, resp))
    /\ pc' = "return"
    /\ UNCHANGED <<user_query, analysis, coords, context, reply>>

\* process_request has returned: app.process_query replies jsonify(result)
respond ==
    /\ pc = "return"
    /\ reply' = [status |-> 200, body |-> result]
    /\ pc' = "idle"
    /\ UNCHANGED <<user_query, analysis, coords, result, context, events, received>>

Next ==
    \/ \E query \in Queries : process_query(query)
    \/ extract_call
    \/ \E resp \in ExtractResponses : extract_return(resp)
    \/ geocode_call
    \/ \E resp \in GeocodeResponses : geocode_return(resp)
    \/ weather_call
    \/ \E resp \in WeatherResponses : weather_return(resp)
    \/ places_call
    \/ \E resp \in PlacesResponses : places_return(resp)
    \/ compose_call
    \/ \E resp \in ComposeResponses : compose_return(resp)
    \/ respond

Spec == Init /\ [][Next]_vars

(***************************************************************************)
(* Properties                                                              *)
(***************************************************************************)
finished == pc \in {"return", "idle"} /\ "success" \in DOMAIN result
got(svc) == svc \in DOMAIN received

\* C1: when the extracted place name is empty or equals "unknown" ignoring
\* case (also when the extraction call failed and was recovered to "unknown"),
\* process_request returns success = false with exactly the fixed message,
\* and no geocoding, weather or places call is made in that run.
C1_NoPlaceFailsWithoutLookups ==
    (/\ got("extract")
     /\ \/ received.extract.status # "ok"
        \/ analysis.place_name = <<>>
        \/ lower(analysis.place_name) = <<"u","n","k","n","o","w","n">>)
    => /\ pc \in {"return", "idle"}
       /\ result = [success |-> FALSE,
                    message |-> <<"I couldn't identify a place name in your query. Please specify which location you'd like information about.">>]
       /\ ~called("geocode") /\ ~called("weather") /\ ~called("places")
       /\ (pc = "idle" => reply = [status |-> 200, body |-> result])

C1_Witness ==
    /\ pc = "idle"
    /\ reply.status = 200
    /\ got("extract")
    /\ received.extract = Completion(Str(<<" ","U","N","K","N","O","W","N","\n">>))
    /\ reply.body.success = FALSE

\* C2: when the place name is accepted and geocoding yields no match (empty
\* result list, timeout, transport or parse failure, all reported as absent),
\* process_request returns success = false with a message that contains the
\* literal place name, and no weather or places call is made in that run.
C2_NoMatchFailsWithoutLookups ==
    (/\ got("geocode")
     /\ \/ coords = None
        \/ received.geocode.status # "ok"
        \/ received.geocode.json.type # "list"
        \/ Len(received.geocode.json.elems) = 0)
    => /\ coords = None
       /\ pc \in {"return", "idle"}
       /\ DOMAIN result = {"success", "message"}
       /\ result.success = FALSE
       /\ contains(analysis.place_name, result.message)
       /\ ~called("weather") /\ ~called("places")
       /\ (pc = "idle" => reply = [status |-> 200, body |-> result])

C2_Witness ==
    /\ pc = "idle"
    /\ reply.status = 200
    /\ got("geocode")
    /\ received.geocode = Body(Json_list(<<>>))
    /\ analysis.place_name = <<"G","o","a">>
    /\ reply.body.success = FALSE

\* C3: in a run that reaches the gathering step the weather client is called
\* iff needs_weather and the places client iff needs_places; in a successful
\* result the weather field is present iff needs_weather and the places field
\* iff needs_places.
C3_LookupsFollowTheFlags ==
    /\ called("weather") => analysis.needs_weather
    /\ called("places") => analysis.needs_places
    /\ (coords # None /\ pc \in {"compose", "compose_wait", "return", "idle"})
       => /\ called("weather") <=> analysis.needs_weather
          /\ called("places") <=> analysis.needs_places
    /\ (finished /\ result.success)
       => /\ coords # None
          /\ "weather" \in DOMAIN result <=> analysis.needs_weather
          /\ "places" \in DOMAIN result <=> analysis.needs_places

C3_Witness ==
    /\ pc = "idle"
    /\ reply.status = 200
    /\ reply.body.success
    /\ ~analysis.needs_weather /\ analysis.needs_places
    /\ "places" \in DOMAIN reply.body /\ "weather" \notin DOMAIN reply.body

\* C4: when weather is requested and the weather lookup fails, the run still
\* ends with success = true, the weather field carries the failure marker,
\* the places lookup (if requested) is still made and its result is what the
\* places response alone determines, and neither the context handed to the
\* composer nor the fallback text holds a weather line.
weather_failed ==
    got("weather") /\ (received.weather.status # "ok" \/ received.weather.json.type # "dict")

C4_WeatherFailureIsAnOmission ==
    weather_failed
    => /\ "weather" \in DOMAIN result /\ "error" \in DOMAIN result.weather
       /\ result.success
       /\ pc \in {"places", "places_wait", "compose", "compose_wait", "return", "idle"}
       /\ pc \in {"places", "places_wait"} => analysis.needs_places
       /\ pc \in {"compose", "compose_wait", "return", "idle"}
          => (analysis.needs_places
              => /\ got("places") /\ "places" \in DOMAIN result
                 /\ result.places = get_tourist_places(received.places))
       /\ pc \in {"compose_wait", "return", "idle"}
          => ~contains(<<"Weather: ">>, context)
       /\ pc \in {"return", "idle"}
          => /\ "response" \in DOMAIN result
             /\ received.compose.status # "ok"
                => ~contains(<<"Weather: ">>, result.response.text)

C4_Witness ==
    /\ pc = "idle"
    /\ reply.status = 200
    /\ weather_failed
    /\ got("places") /\ Len(result.places) = 2 /\ "name" \in DOMAIN result.places[1]
    /\ received.compose.status # "ok"
    /\ reply.body.success

\* C5: the calls of one run happen in the order place extraction, geocoding,
\* weather, places, composition; a call goes out only after the call before
\* it has returned; no service is called twice.
Rank(svc) ==
    CASE svc = "extract" -> 1
      [] svc = "geocode" -> 2
      [] svc = "weather" -> 3
      [] svc = "places" -> 4
      [] svc = "compose" -> 5

C5_SequentialOnceInOrder ==
    \A i \in 1..Len(events) :
        IF events[i].ev = "call"
        THEN /\ i = 1 \/ events[i-1].ev = "return"
             /\ \A j \in 1..(i-1) : Rank(events[j].svc) < Rank(events[i].svc)
        ELSE i > 1 /\ events[i-1] = call(events[i].svc)

C5_Witness ==
    /\ pc = "idle"
    /\ reply.status = 200
    /\ [i \in 1..Len(calls) |-> calls[i].svc]
         = <<"extract", "geocode", "weather", "places", "compose">>

\* C6 as stated: every run issues at most four network calls in total.
C6_AtMostFourCalls == Len(calls) <= 4

\* C6 as amended: every run issues at most five network calls in total (two
\* to the completion service, one each to the geocoding, weather and
\* points-of-interest providers).
C6_AtMostFiveCalls ==
    /\ Len(calls) <= 5
    /\ times_called("extract") + times_called("compose") <= 2
    /\ times_called("geocode") <= 1
    /\ times_called("weather") <= 1
    /\ times_called("places") <= 1

C6_Witness ==
    /\ pc = "idle"
    /\ reply.status = 200
    /\ Len(calls) = 5
    /\ received.compose.status # "ok"

\* C7: get_tourist_places never returns more than 5 elements, whatever the
\* number of elements upstream, and the elements kept are the first ones in
\* upstream order.
has_marker(places) == \E i \in 1..Len(places) : "error" \in DOMAIN places[i]

C7_AtMostFiveFirstOnes ==
    got("places")
    => /\ Len(result.places) <= 5
       /\ ~has_marker(result.places)
          => LET upstream == get(received.places.json.items, "elements", <<>>)
             IN /\ Len(result.places) = IF Len(upstream) < 5 THEN Len(upstream) ELSE 5
                /\ \A i \in 1..Len(result.places) :
                      result.places[i] = place_info_of(upstream[i])

C7_Witness ==
    /\ pc = "idle"
    /\ reply.status = 200
    /\ got("places")
    /\ received.places.status = "ok"
    /\ received.places.json.type = "dict"
    /\ "elements" \in DOMAIN received.places.json.items
    /\ Len(received.places.json.items.elements) > 5
    /\ Len(result.places) = 5
    /\ ~has_marker(result.places)
    /\ result.places[1] # result.places[2]

\* C8: the result of get_tourist_places tells a failed lookup from zero
\* attractions: on a transport or parse failure it is exactly one element,
\* which carries the failure marker; on a successful lookup no element
\* carries a marker and the result is empty exactly when upstream returned
\* zero elements.
C8_FailureIsNotEmpty ==
    got("places")
    => LET resp == received.places
           places == result.places
       IN /\ (resp.status # "ok" \/ resp.json.type # "dict")
             => Len(places) = 1 /\ "error" \in DOMAIN places[1]
          /\ has_marker(places)
             => /\ Len(places) = 1
                /\ \/ resp.status # "ok"
                   \/ resp.json.type # "dict"
                   \/ \E i \in 1..Len(resp.json.items.elements) :
                         resp.json.items.elements[i].type # "dict"
          /\ ~has_marker(places)
             => /\ resp.status = "ok" /\ resp.json.type = "dict"
                /\ Len(places) = 0
                   <=> Len(get(resp.json.items, "elements", <<>>)) = 0

C8_Witness ==
    /\ pc = "idle"
    /\ reply.status = 200
    /\ got("places")
    /\ received.places.status # "ok"
    /\ Len(reply.body.places) = 1
    /\ "error" \in DOMAIN reply.body.places[1]

\* C9: when the completion service fails during composition, the text is
\* exactly "Here's what I found: " followed by the context: the location line
\* always, then the weather line iff a weather summary without failure marker
\* is present, then the attractions line iff some point of interest without
\* failure marker is present, the lines separated by a line break.
RECURSIVE line_heads(_, _)
line_heads(text, i) ==
    IF i > Len(text) THEN <<>>
    ELSE (IF i = 1 \/ text[i-1] = "\n" THEN <<text[i]>> ELSE <<>>) \o line_heads(text, i + 1)

weather_present == "weather" \in DOMAIN result /\ "error" \notin DOMAIN result.weather
attraction_present ==
    /\ "places" \in DOMAIN result
    /\ \E i \in 1..Len(result.places) : "error" \notin DOMAIN result.places[i]

C9_FallbackText ==
    (finished /\ got("compose") /\ received.compose.status # "ok")
    => LET text == result.response.text
       IN /\ Head(text) = "Here's what I found: "
          /\ Tail(text) = context
          /\ line_heads(context, 1)
               = <<"Location: ">>
                   \o (IF weather_present THEN <<"Weather: ">> ELSE <<>>)
                   \o (IF attraction_present THEN <<"Tourist attractions: ">> ELSE <<>>)

C9_Witness ==
    /\ pc = "idle"
    /\ reply.status = 200
    /\ got("compose") /\ received.compose.status # "ok"
    /\ weather_present /\ attraction_present
    /\ has_marker(result.places) = FALSE
    /\ Len(line_heads(reply.body.response.text, 1)) = 3

\* C10: whenever geocoding succeeds the canonical display name is non-empty,
\* whatever the upstream response; so the full name of the place in every
\* successful result is non-empty.
C10_CanonicalNameNonEmpty ==
    /\ coords # None => coords.display_name # <<>>
    /\ (finished /\ result.success) => result.place.full_name # <<>>

====
